---- MODULE Spec2Model ----
(***************************************************************************)
(* A model of the site build pipeline of src/site.rs: the Site aggregate   *)
(* (pages, sections, tag and category indices, configuration, output       *)
(* path), the content tree it reads, the output trees it writes, and the   *)
(* controller operations parse, build, rebuild_after_content_change,       *)
(* rebuild_after_template_change and set_output_path.                      *)
(*                                                                         *)
(* Paths of content files are natural numbers whose numeric order is the   *)
(* order in which glob yields them (children of a directory sorted by file *)
(* name, depth first).  Directories are strings.  Output paths are         *)
(* sequences of path components below an output root.                      *)
(***************************************************************************)
EXTENDS Integers, Sequences, FiniteSets, TLC

VARIABLES
    fs,           \* the content tree: content path -> file (what the parser reads)
    pages,        \* Site.pages: HashMap<PathBuf, Page>
    sections,     \* Site.sections: BTreeMap<PathBuf, Section>
    tags,         \* Site.tags: HashMap<String, Vec<PathBuf>>
    categories,   \* Site.categories: HashMap<String, Vec<PathBuf>>
    config,       \* Site.config (the three toggles and base_url)
    output_path,  \* Site.output_path
    disk,         \* the output trees: root -> (output path -> document)
    faulty,       \* whether the templates and the file system of the run can fail
    pc,           \* position of the running controller call ("idle": none)
    op,           \* the controller call that is running or ran last
    steps,        \* the steps the call has run so far, in order
    written,      \* the <<root, path>> entries the call has created or overwritten
    listed,       \* the keys of the index in the order the step just run iterated
                  \* them, if it was render_categories_and_tags (else <<>>)
    result,       \* outcome of the last finished call: "none", "ok", "err"
    calls,        \* number of controller calls made
    edits         \* number of changes made to the content tree

vars == <<fs, pages, sections, tags, categories, config, output_path, disk, faulty,
          pc, op, steps, written, listed, result, calls, edits>>

siteVars == <<pages, sections, tags, categories>>

(***************************************************************************)
(* Bounds of the model.                                                    *)
(***************************************************************************)
MaxCalls == 2
MaxEdits == 1
MaxFeedPages == 16
MaxUndated == 2

(***************************************************************************)
(* Maps (HashMap / BTreeMap) are functions with a growing domain.          *)
(***************************************************************************)
EmptyMap == [k \in {} |-> {}]

Put(m, k, v) == [x \in (DOMAIN m) \cup {k} |-> IF x = k THEN v ELSE m[x]]

Restrict(m, S) == [x \in S |-> m[x]]

Range(s) == {s[i] : i \in DOMAIN s}

Min(S) == CHOOSE x \in S : \A y \in S : x <= y

Max(S) == CHOOSE x \in S : \A y \in S : y <= x

\* The elements of a finite set of numbers in ascending order.
RECURSIVE Ascending(_)
Ascending(S) == IF S = {} THEN <<>> ELSE <<Min(S)>> \o Ascending(S \ {Min(S)})

Reverse(s) == [i \in 1..Len(s) |-> s[Len(s) + 1 - i]]

Rotate(s, k) == [i \in 1..Len(s) |-> s[((i + k - 1) % Len(s)) + 1]]

(***************************************************************************)
(* The iteration orders of a HashMap with key set S.  The order of a       *)
(* HashMap is unspecified: every iteration picks one of these.  The        *)
(* rotations of the ascending and of the descending key order are all the  *)
(* permutations of up to three keys, and a sample of them beyond.          *)
(***************************************************************************)
IterOrders(S) ==
    IF S = {} THEN {<<>>}
    ELSE {Rotate(Ascending(S), k) : k \in 0..(Cardinality(S) - 1)}
         \cup {Rotate(Reverse(Ascending(S)), k) : k \in 0..(Cardinality(S) - 1)}

(***************************************************************************)
(* The content trees.  A file is what the content parser reads from it:    *)
(* front matter (date, category, tags, title as a rank in title order),    *)
(* the derived url and components, the colocated assets, and whether it    *)
(* parses at all.  An absent date or category is the empty set.            *)
(***************************************************************************)
File(name, dir, valid, date, category, tgs, title, url, components, assets) ==
    [name |-> name, dir |-> dir, valid |-> valid, date |-> date,
     category |-> category, tags |-> tgs, title |-> title, url |-> url,
     components |-> components, assets |-> assets]

\* content/2017.md, content/_index.md, content/post.md, content/sub/_index.md,
\* content/sub/child.md, content/sub/late.md, content/zbad.md: in the order
\* glob yields them ('2' < '_' < 'p' < 's' < 'z').  late.md is more recent
\* than child.md.  zbad.md has malformed front matter.
ContentFiles ==
    <<File("2017.md", "content", TRUE, {}, {}, <<>>, 1, <<"2017">>, <<>>, <<>>),
      File("_index.md", "content", TRUE, {}, {}, <<>>, 2, <<>>, <<>>, <<>>),
      File("post.md", "content", TRUE, {2}, {"Rust"}, <<"a">>, 3, <<"post">>, <<>>,
           <<"img.png">>),
      File("_index.md", "content/sub", TRUE, {}, {}, <<>>, 4, <<>>, <<"sub">>, <<>>),
      File("child.md", "content/sub", TRUE, {1}, {}, <<"a", "b">>, 5,
           <<"sub", "child">>, <<>>, <<>>),
      File("late.md", "content/sub", TRUE, {3}, {}, <<>>, 6, <<"sub", "late">>, <<>>,
           <<>>),
      File("zbad.md", "content", FALSE, {}, {}, <<>>, 7, <<"zbad">>, <<>>, <<>>)>>

FeedNames ==
    <<"p01.md", "p02.md", "p03.md", "p04.md", "p05.md", "p06.md", "p07.md",
      "p08.md", "p09.md", "p10.md", "p11.md", "p12.md", "p13.md", "p14.md",
      "p15.md", "p16.md", "p17.md", "p18.md", "p19.md", "p20.md">>

FeedSlugs ==
    <<"p01", "p02", "p03", "p04", "p05", "p06", "p07", "p08", "p09", "p10",
      "p11", "p12", "p13", "p14", "p15", "p16", "p17", "p18", "p19", "p20">>

\* A flat content tree of n pages content/p01.md .. of which the first
\* `undated` have no date and page i of the others has date i.
FeedTree(n, undated) ==
    [i \in 1..n |->
        File(FeedNames[i], "content", TRUE, IF i <= undated THEN {} ELSE {i},
             {}, <<>>, i, <<FeedSlugs[i]>>, <<>>, <<>>)]

\* The directories in PathBuf order, and Path::parent.
Dirs == <<"content", "content/sub">>

Parent(d) == IF d = "content/sub" THEN "content" ELSE "."

\* BTreeMap iteration: the keys in ascending order.
BTreeOrder(S) == SelectSeq(Dirs, LAMBDA d : d \in S)

(***************************************************************************)
(* Document model: Page, Section and the Page ordering.                    *)
(***************************************************************************)
PageFromFile(path, file) ==
    [file_path |-> path, parent_path |-> file.dir, date |-> file.date,
     category |-> file.category, tags |-> file.tags, title |-> file.title,
     url |-> file.url, assets |-> file.assets]

SectionFromFile(path, file) ==
    [file_path |-> path, parent_path |-> file.dir, components |-> file.components,
     pages |-> <<>>, subsections |-> <<>>]

\* Page::partial_cmp: -1 (Less), 0 (Equal), 1 (Greater).  Date descending,
\* undated pages last, then title.
PageCmp(a, b) ==
    LET byTitle == IF a.title < b.title THEN -1
                   ELSE IF a.title > b.title THEN 1 ELSE 0
    IN  IF a.date # {} /\ b.date # {}
        THEN LET da == CHOOSE d \in a.date : TRUE
                 db == CHOOSE d \in b.date : TRUE
             IN  IF da > db THEN -1 ELSE IF da < db THEN 1 ELSE byTitle
        ELSE IF a.date # {} THEN -1
        ELSE IF b.date # {} THEN 1
        ELSE byTitle

\* slice::sort_by with the Page ordering: a stable sort.
RECURSIVE InsertPage(_, _)
InsertPage(sorted, x) ==
    IF sorted = <<>> THEN <<x>>
    ELSE IF PageCmp(x, Head(sorted)) = -1 THEN <<x>> \o sorted
    ELSE <<Head(sorted)>> \o InsertPage(Tail(sorted), x)

RECURSIVE SortPages(_)
SortPages(s) ==
    IF s = <<>> THEN <<>>
    ELSE InsertPage(SortPages(SubSeq(s, 1, Len(s) - 1)), s[Len(s)])

(***************************************************************************)
(* Site::parse and Site::parse_tags_and_categories.                        *)
(***************************************************************************)
\* glob("content/**/*.md"): the content paths in ascending order.
Glob(tree) == Ascending(DOMAIN tree)

\* The body of the loop over the glob entries for a file that parsed as a
\* page: push a clone to the section of its directory if that section has
\* been seen, and insert it into the pages of the Site.
LoadPage(acc, page) ==
    [acc EXCEPT
        !.sections = IF page.parent_path \in DOMAIN acc.sections
                     THEN [acc.sections EXCEPT
                              ![page.parent_path].pages = Append(@, page)]
                     ELSE acc.sections,
        !.pages = Put(acc.pages, page.file_path, page)]

\* The body of the loop for an _index.md that parsed as a section.
LoadSection(acc, section) ==
    [acc EXCEPT !.sections = Put(acc.sections, section.parent_path, section)]

\* The loop: acc.pages is self.pages, acc.sections the local BTreeMap.  The
\* `?` on from_file leaves the loop at the first file that does not parse.
RECURSIVE ParseLoop(_, _, _)
ParseLoop(tree, entries, acc) ==
    IF entries = <<>> THEN acc
    ELSE LET path == Head(entries)
             file == tree[path]
         IN  IF ~file.valid THEN [acc EXCEPT !.ok = FALSE, !.bad = {path}]
             ELSE IF file.name = "_index.md"
             THEN ParseLoop(tree, Tail(entries),
                            LoadSection(acc, SectionFromFile(path, file)))
             ELSE ParseLoop(tree, Tail(entries),
                            LoadPage(acc, PageFromFile(path, file)))

LoadContent(tree, pgs) ==
    ParseLoop(tree, Glob(tree),
              [ok |-> TRUE, bad |-> {}, pages |-> pgs,
               sections |-> EmptyMap])

\* grandparent_paths: parent of a section's directory -> clones of the
\* sections below it, pushed in BTreeMap order.
RECURSIVE GrandparentPaths(_, _, _)
GrandparentPaths(secs, order, acc) ==
    IF order = <<>> THEN acc
    ELSE LET section == secs[Head(order)]
             grand_parent == Parent(section.parent_path)
             sofar == IF grand_parent \in DOMAIN acc THEN acc[grand_parent] ELSE <<>>
         IN  GrandparentPaths(secs, Tail(order),
                              Put(acc, grand_parent, Append(sofar, section)))

\* A second loop that extends the subsections and leaves the pages in the
\* order they were pushed.
LinkSectionsUnsorted(secs) ==
    LET gp == GrandparentPaths(secs, BTreeOrder(DOMAIN secs), EmptyMap)
    IN  [d \in DOMAIN secs |->
            [secs[d] EXCEPT
                !.subsections = IF d \in DOMAIN gp THEN @ \o gp[d] ELSE @]]

\* The second loop over the sections: sort the pages, extend the
\* subsections.
LinkSections(secs) ==
    LET gp == GrandparentPaths(secs, BTreeOrder(DOMAIN secs), EmptyMap)
    IN  [d \in DOMAIN secs |->
            [secs[d] EXCEPT
                !.pages = SortPages(@),
                !.subsections = IF d \in DOMAIN gp THEN @ \o gp[d] ELSE @]]

Push(m, k, v) == Put(m, k, Append(IF k \in DOMAIN m THEN m[k] ELSE <<>>, v))

\* A pass that indexes a page under its first tag only.
PushTagsFirstOnly(tgs, names, path) ==
    IF names = <<>> THEN tgs ELSE Push(tgs, Head(names), path)

RECURSIVE PushTags(_, _, _)
PushTags(tgs, names, path) ==
    IF names = <<>> THEN tgs
    ELSE PushTags(Push(tgs, Head(names), path), Tail(names), path)

\* parse_tags_and_categories: one pass over self.pages.values() in the
\* order `order`, pushing onto self.categories and self.tags.
RECURSIVE IndexPages(_, _, _)
IndexPages(pgs, order, idx) ==
    IF order = <<>> THEN idx
    ELSE LET page == pgs[Head(order)]
             cats == IF page.category # {}
                     THEN Push(idx.categories, CHOOSE c \in page.category : TRUE,
                               page.file_path)
                     ELSE idx.categories
         IN  IndexPages(pgs, Tail(order),
                        [categories |-> cats,
                         tags |-> PushTags(idx.tags, page.tags, page.file_path)])

ParseTagsAndCategories(pgs, order, tgs, cats) ==
    IndexPages(pgs, order, [categories |-> cats, tags |-> tgs])

\* The Site is idle and the program that drives it makes another call.  A
\* faulty run is followed up to its first error.
CanCall ==
    /\ pc = "idle"
    /\ calls < MaxCalls
    /\ ~(faulty /\ result = "err")

\* A caller that drops the error of a step and goes on with the next one.
AfterFailureGoesOn(next) == next

\* The `?` on the call of a step: its error is returned at once, the steps
\* after it (the first of them being `next`) do not run.
AfterFailure(next) == "idle"

\* What parse() does to the Site, for the call named `name` continuing at
\* `next` when it succeeds.
ParseSite(name, next) ==
    LET l == LoadContent(fs, pages)
    IN  /\ pages' = l.pages
        /\ op' = name
        /\ steps' = <<"parse">>
        /\ written' = {}
        /\ listed' = <<>>
        /\ calls' = calls + 1
        /\ IF l.ok
           THEN \E order \in IterOrders(DOMAIN l.pages) :
                   LET idx == ParseTagsAndCategories(l.pages, order, tags, categories)
                   IN  /\ sections' = LinkSections(l.sections)
                       /\ tags' = idx.tags
                       /\ categories' = idx.categories
                       /\ pc' = next
                       /\ result' = IF next = "idle" THEN "ok" ELSE "none"
           ELSE /\ UNCHANGED <<sections, tags, categories>>
                /\ pc' = AfterFailure(next)
                /\ result' = "err"
        /\ UNCHANGED <<fs, config, faulty, output_path, disk, edits>>

Parse ==
    /\ CanCall
    /\ ParseSite("parse", "idle")

(***************************************************************************)
(* The output trees.  A tree maps the output paths that exist below its    *)
(* root (<<>> is the root directory itself) to documents.  A document      *)
(* records what was rendered into it: the pages listed (by file_path, in   *)
(* order), the list items of an overview, a date, a set of urls.           *)
(***************************************************************************)
OutRoots == {"public", "out"}

Doc(kind, pgs, items, date, urls) ==
    [kind |-> kind, pages |-> pgs, items |-> items, date |-> date, urls |-> urls]

DirDoc == Doc("dir", <<>>, <<>>, {}, {})

Prefixes(p) == {SubSeq(p, 1, k) : k \in 0..Len(p)}

Front(p) == SubSeq(p, 1, Len(p) - 1)

Mkdir(p) == [path |-> p, doc |-> DirDoc]

WriteFile(p, doc) == [path |-> p, doc |-> doc]

\* The tree after the writes `ws` in order.  utils::create_directory makes
\* the directory and its missing parents and leaves what is there;
\* utils::create_file overwrites unconditionally.  So a path holds the
\* document of the last file written to it, else what it held, else a
\* directory.
ApplyWrites(t, ws) ==
    LET files == {i \in DOMAIN ws : ws[i].doc.kind # "dir"}
        made == UNION {Prefixes(IF i \in files THEN Front(ws[i].path) ELSE ws[i].path) :
                          i \in DOMAIN ws}
        last(x) == Max({i \in files : ws[i].path = x})
    IN  [x \in (DOMAIN t) \cup made \cup {ws[i].path : i \in files} |->
            IF \E i \in files : ws[i].path = x THEN ws[last(x)].doc
            ELSE IF x \in DOMAIN t THEN t[x]
            ELSE DirDoc]

\* The entries a step wrote: the files it created or overwrote and the
\* directories it created.
Touched(root, t1, t2, ws) ==
    {<<root, w.path>> : w \in {x \in Range(ws) : x.doc.kind # "dir"}}
    \cup {<<root, p>> : p \in (DOMAIN t2) \ (DOMAIN t1)}

\* The function `name` runs, iterating the keys of an index in the order
\* `keys` if it is a listing, and applies the writes `ws` below `root`; the
\* call is then at `next` with the outcome `outcome`.
ApplyStep(name, root, ws, keys, next, outcome) ==
    LET t2 == ApplyWrites(disk[root], ws)
    IN  /\ disk' = [disk EXCEPT ![root] = t2]
        /\ written' = written \cup Touched(root, disk[root], t2, ws)
        /\ listed' = keys
        /\ steps' = Append(steps, name)
        /\ pc' = next
        /\ result' = outcome
        /\ UNCHANGED <<fs, pages, sections, tags, categories, config, faulty,
                       output_path, op, calls, edits>>

\* One step of a controller call.  Either every render, create_directory,
\* create_file and copy of the step succeeds, and the call continues at
\* `next`; or the one that would make write k + 1 fails, after the first k
\* writes, and the `?` returns the error.
RunListing(name, root, ws, next, keys) ==
    \/ ApplyStep(name, root, ws, keys, next, IF next = "idle" THEN "ok" ELSE result)
    \/ /\ faulty
       /\ \E k \in 0..(Len(ws) - 1) :
                ApplyStep(name, root, SubSeq(ws, 1, k), keys, AfterFailure(next), "err")

RunStep(name, root, ws, next) == RunListing(name, root, ws, next, <<>>)

\* An `if` of the controller whose condition is false: nothing runs.
SkipStep(next) ==
    /\ pc' = next
    /\ UNCHANGED <<fs, pages, sections, tags, categories, config, faulty, output_path,
                   disk, op, steps, written, listed, result, calls, edits>>

RECURSIVE Flatten(_)
Flatten(ss) == IF ss = <<>> THEN <<>> ELSE Head(ss) \o Flatten(Tail(ss))

PathsOf(ps) == [i \in 1..Len(ps) |-> ps[i].file_path]

\* The permutations of a set of keys: the iteration orders of a HashMap
\* keyed by strings.
RECURSIVE Perms(_)
Perms(S) ==
    IF S = {} THEN {<<>>}
    ELSE UNION {{<<x>> \o q : q \in Perms(S \ {x})} : x \in S}

\* slug::slugify on the names of the content trees.
Slugify(name) == IF name = "Rust" THEN "rust" ELSE name

(***************************************************************************)
(* Site::clean                                                             *)
(***************************************************************************)
CleanTree(d) ==
    IF <<>> \in DOMAIN d["public"] THEN [d EXCEPT !["public"] = EmptyMap] ELSE d

\* remove_dir_all either removes the directory or, failing, returns an
\* error (here: having removed nothing).
Clean ==
    /\ pc = "clean"
    /\ steps' = Append(steps, "clean")
    /\ \/ /\ disk' = CleanTree(disk)
          /\ pc' = "build_pages"
          /\ UNCHANGED result
       \/ /\ faulty
          /\ <<>> \in DOMAIN disk["public"]
          /\ pc' = AfterFailure("build_pages")
          /\ result' = "err"
          /\ UNCHANGED disk
    /\ UNCHANGED <<fs, pages, sections, tags, categories, config, faulty, output_path,
                   op, written, listed, calls, edits>>

(***************************************************************************)
(* Site::build_pages: the pages, the listings, the site index.             *)
(***************************************************************************)
\* The loop body for one page: the directories of its url, its index.html,
\* its assets.
PageWrites(page) ==
    [k \in 1..Len(page.url) |-> Mkdir(SubSeq(page.url, 1, k))]
    \o <<Mkdir(page.url),
         WriteFile(page.url \o <<"index.html">>,
                   Doc("page", <<page.file_path>>, <<>>, page.date, {}))>>
    \o [k \in 1..Len(page.assets) |->
           WriteFile(page.url \o <<page.assets[k]>>,
                     Doc("asset", <<page.file_path>>, <<>>, {}, {}))]

RenderPagesWrites(pgs, order) ==
    <<Mkdir(<<>>)>> \o Flatten([i \in 1..Len(order) |-> PageWrites(pgs[order[i]])])

RenderPages ==
    /\ pc = "build_pages"
    /\ \E order \in IterOrders(DOMAIN pages) :
          RunStep("render_pages", output_path, RenderPagesWrites(pages, order),
                  "categories")

ListItem(name, count) == [name |-> name, slug |-> Slugify(name), count |-> count]

\* A sort by descending count that puts an item before those of equal count
\* already placed.
RECURSIVE InsertItemBeforeEqual(_, _)
InsertItemBeforeEqual(sorted, x) ==
    IF sorted = <<>> THEN <<x>>
    ELSE IF x.count >= Head(sorted).count THEN <<x>> \o sorted
    ELSE <<Head(sorted)>> \o InsertItemBeforeEqual(Tail(sorted), x)

\* sort_by(|a, b| b.count.cmp(&a.count)): stable, descending count.
RECURSIVE InsertItem(_, _)
InsertItem(sorted, x) ==
    IF sorted = <<>> THEN <<x>>
    ELSE IF x.count > Head(sorted).count THEN <<x>> \o sorted
    ELSE <<Head(sorted)>> \o InsertItem(Tail(sorted), x)

RECURSIVE SortItems(_)
SortItems(s) ==
    IF s = <<>> THEN <<>>
    ELSE InsertItem(SortItems(SubSeq(s, 1, Len(s) - 1)), s[Len(s)])

\* The pages of a detail page: those of self.pages whose path is in the
\* item's list, in the Page ordering.
ItemPages(pgs, order, paths) ==
    SortPages(SelectSeq([i \in 1..Len(order) |-> pgs[order[i]]],
                        LAMBDA q : q.file_path \in Range(paths)))

ItemWrites(name, slug, pgs, order, paths) ==
    <<Mkdir(<<name, slug>>),
      WriteFile(<<name, slug, "index.html">>,
                Doc("single", PathsOf(ItemPages(pgs, order, paths)), <<>>, {}, {}))>>

\* A render_categories_and_tags without the early return on an empty index.
RenderListWritesOfEmpty(name, items, keys, pgs, order) ==
    <<Mkdir(<<name>>),
      WriteFile(<<name, "index.html">>,
                Doc("list", <<>>,
                    SortItems([i \in 1..Len(keys) |->
                                  ListItem(keys[i], Len(items[keys[i]]))]),
                    {}, {}))>>
    \o Flatten([i \in 1..Len(keys) |->
           ItemWrites(name, Slugify(keys[i]), pgs, order, items[keys[i]])])

\* render_categories_and_tags for the index `items` (name: "categories" or
\* "tags"), iterated in the order `keys`.
RenderListWrites(name, items, keys, pgs, order) ==
    IF DOMAIN items = {} THEN <<>>
    ELSE <<Mkdir(<<name>>),
           WriteFile(<<name, "index.html">>,
                     Doc("list", <<>>,
                         SortItems([i \in 1..Len(keys) |->
                                       ListItem(keys[i], Len(items[keys[i]]))]),
                         {}, {}))>>
         \o Flatten([i \in 1..Len(keys) |->
                ItemWrites(name, Slugify(keys[i]), pgs, order, items[keys[i]])])

RenderCategories ==
    /\ pc = "categories"
    /\ IF config.generate_categories_pages
       THEN \E keys \in Perms(DOMAIN categories), order \in IterOrders(DOMAIN pages) :
               RunListing("render_categories", output_path,
                          RenderListWrites("categories", categories, keys, pages, order),
                          "tags", keys)
       ELSE SkipStep("tags")

RenderTags ==
    /\ pc = "tags"
    /\ IF config.generate_tags_pages
       THEN \E keys \in Perms(DOMAIN tags), order \in IterOrders(DOMAIN pages) :
               RunListing("render_tags", output_path,
                          RenderListWrites("tags", tags, keys, pages, order), "index",
                          keys)
       ELSE SkipStep("index")

\* A site index that is rendered only for a Site that has pages.
IndexWritesIfPages(pgs, order) ==
    IF DOMAIN pgs = {} THEN <<>>
    ELSE <<WriteFile(<<"index.html">>,
                     Doc("index",
                         PathsOf(SortPages([i \in 1..Len(order) |-> pgs[order[i]]])),
                         <<>>, {}, {}))>>

IndexWrites(pgs, order) ==
    <<WriteFile(<<"index.html">>,
                Doc("index",
                    PathsOf(SortPages([i \in 1..Len(order) |-> pgs[order[i]]])),
                    <<>>, {}, {}))>>

\* A build() that renders the feed right after build_pages, without the
\* sitemap.
AfterBuildPagesSkipsSitemap ==
    IF op = "rebuild_after_template_change" THEN "idle" ELSE "rss"

\* A rebuild_after_template_change() that calls build() without its clean.
AfterBuildPagesGoesOn == "sitemap"

\* build_pages returns after the site index; build() goes on with the
\* sitemap, rebuild_after_template_change() is done.
AfterBuildPages == IF op = "rebuild_after_template_change" THEN "idle" ELSE "sitemap"

RenderIndex ==
    /\ pc = "index"
    /\ \E order \in IterOrders(DOMAIN pages) :
          RunStep("render_index", output_path, IndexWrites(pages, order),
                  AfterBuildPages)

(***************************************************************************)
(* Site::render_sitemap, Site::render_rss_feed, Site::render_sections,     *)
(* Site::copy_static_directory                                             *)
(***************************************************************************)
ListUrls(on, name, items) ==
    IF on /\ DOMAIN items # {}
    THEN {<<name>>} \cup {<<name, Slugify(k)>> : k \in DOMAIN items}
    ELSE {}

SitemapWrites(pgs, secs, cfg, tgs, cats) ==
    <<WriteFile(<<"sitemap.xml">>,
                Doc("sitemap", <<>>, <<>>, {},
                    {pgs[k].url : k \in DOMAIN pgs}
                    \cup {secs[d].components : d \in DOMAIN secs}
                    \cup ListUrls(cfg.generate_categories_pages, "categories", cats)
                    \cup ListUrls(cfg.generate_tags_pages, "tags", tgs)))>>

RenderSitemap ==
    /\ pc = "sitemap"
    /\ RunStep("render_sitemap", output_path,
               SitemapWrites(pages, sections, config, tags, categories), "rss")

\* .take(15)
FeedLimit == 15

Take(s, n) == SubSeq(s, 1, IF Len(s) < n THEN Len(s) ELSE n)

\* A feed without the filter on the date.
FeedPagesUnfiltered(pgs, order) ==
    SortPages(Take([i \in 1..Len(order) |-> pgs[order[i]]], FeedLimit))

\* The pages of the feed: self.pages.values() in the order `order`,
\* filtered on a date, the first 15 taken, then sorted.
FeedPages(pgs, order) ==
    SortPages(Take(SelectSeq([i \in 1..Len(order) |-> pgs[order[i]]],
                             LAMBDA q : q.date # {}),
                   FeedLimit))

\* A url is the sequence of its parts: a part is "/" or a run of other
\* characters.
EndsWithSlash(url) == url # <<>> /\ url[Len(url)] = "/"

\* A feed url that always puts a "/" after base_url.
FeedUrlSlashAdded(base_url) == base_url \o <<"/", "feed.xml">>

\* rss_feed_url
FeedUrl(base_url) ==
    IF EndsWithSlash(base_url) THEN base_url \o <<"feed.xml">>
    ELSE base_url \o <<"/", "feed.xml">>

FeedWrites(pgs, order, base_url) ==
    LET feed == FeedPages(pgs, order)
    IN  IF feed = <<>> THEN <<>>
        ELSE <<WriteFile(<<"rss.xml">>,
                         Doc("rss", PathsOf(feed), <<>>, feed[1].date,
                             {FeedUrl(base_url)}))>>

RenderRssFeed ==
    /\ pc = "rss"
    /\ IF config.generate_rss
       THEN \E order \in IterOrders(DOMAIN pages) :
               RunStep("render_rss_feed", output_path,
                       FeedWrites(pages, order, config.base_url), "sections")
       ELSE SkipStep("sections")

SectionWrites(section) ==
    [k \in 1..Len(section.components) |-> Mkdir(SubSeq(section.components, 1, k))]
    \o <<WriteFile(section.components \o <<"index.html">>,
                   Doc("section", PathsOf(section.pages), <<>>, {},
                       {section.subsections[i].components :
                           i \in 1..Len(section.subsections)}))>>

SectionsWrites(secs) ==
    LET order == BTreeOrder(DOMAIN secs)
    IN  Flatten([i \in 1..Len(order) |-> SectionWrites(secs[order[i]])])

RenderSections ==
    /\ pc = "sections"
    /\ RunStep("render_sections", output_path, SectionsWrites(sections), "static")

\* The static directory as WalkDir yields it: static/, static/css/,
\* static/css/site.css, static/robots.txt.
StaticEntries ==
    <<Mkdir(<<>>), Mkdir(<<"css">>),
      WriteFile(<<"css", "site.css">>, Doc("static", <<>>, <<>>, {}, {<<"css", "site.css">>})),
      WriteFile(<<"robots.txt">>, Doc("static", <<>>, <<>>, {}, {<<"robots.txt">>}))>>

\* `let target = Path::new("public")`
StaticTarget == "public"

CopyStaticDirectory ==
    /\ pc = "static"
    /\ RunStep("copy_static_directory", StaticTarget, StaticEntries, "idle")

(***************************************************************************)
(* The controller calls.                                                   *)
(***************************************************************************)
StartCall(name, first, next) ==
    /\ CanCall
    /\ op' = name
    /\ steps' = first
    /\ written' = {}
    /\ listed' = <<>>
    /\ result' = "none"
    /\ pc' = next
    /\ calls' = calls + 1
    /\ UNCHANGED <<fs, pages, sections, tags, categories, config, faulty, output_path,
                   disk, edits>>

Build == StartCall("build", <<>>, "clean")

RebuildAfterContentChange ==
    /\ CanCall
    /\ ParseSite("rebuild_after_content_change", "clean")

\* A call whose first step fails.
FailCall(name, first, next) ==
    /\ CanCall
    /\ op' = name
    /\ steps' = first
    /\ written' = {}
    /\ listed' = <<>>
    /\ result' = "err"
    /\ pc' = AfterFailure(next)
    /\ calls' = calls + 1
    /\ UNCHANGED <<fs, pages, sections, tags, categories, config, faulty, output_path,
                   disk, edits>>

\* templates.full_reload()?; build_pages()
RebuildAfterTemplateChange ==
    \E reloaded \in (IF faulty THEN BOOLEAN ELSE {TRUE}) :
        IF reloaded
        THEN StartCall("rebuild_after_template_change", <<"full_reload">>, "build_pages")
        ELSE FailCall("rebuild_after_template_change", <<"full_reload">>, "build_pages")

\* set_output_path is what a test calls on the Site it has just constructed.
SetOutputPath ==
    /\ pc = "idle"
    /\ calls = 0
    /\ \E path \in OutRoots \ {output_path} : output_path' = path
    /\ UNCHANGED <<fs, pages, sections, tags, categories, config, faulty, disk, pc, op,
                   steps, written, listed, result, calls, edits>>

(***************************************************************************)
(* The author edits the content tree between two calls (an edit before the *)
(* first call is another initial tree; one after the last call is seen by  *)
(* no call).                                                               *)
(***************************************************************************)
CanEdit ==
    /\ CanCall
    /\ 0 < calls
    /\ edits < MaxEdits

AddFile ==
    /\ CanEdit
    /\ \E f \in (DOMAIN ContentFiles) \ (DOMAIN fs) : fs' = Put(fs, f, ContentFiles[f])
    /\ edits' = edits + 1
    /\ UNCHANGED <<pages, sections, tags, categories, config, faulty, output_path, disk,
                   pc, op, steps, written, listed, result, calls>>

RemoveFile ==
    /\ CanEdit
    /\ \E f \in DOMAIN fs : fs' = Restrict(fs, (DOMAIN fs) \ {f})
    /\ edits' = edits + 1
    /\ UNCHANGED <<pages, sections, tags, categories, config, faulty, output_path, disk,
                   pc, op, steps, written, listed, result, calls>>

(***************************************************************************)
(* Site::new: no content loaded, the output path "public".                 *)
(***************************************************************************)
\* The values of config.base_url: without and with a trailing slash, and
\* the empty string.
SiteUrl == <<"http:", "/", "/", "site">>

BaseUrls == {SiteUrl, SiteUrl \o <<"/">>, <<>>}

Configs ==
    [generate_rss : BOOLEAN, generate_tags_pages : BOOLEAN,
     generate_categories_pages : BOOLEAN, base_url : BaseUrls]

NewSite ==
    /\ pages = EmptyMap
    /\ sections = EmptyMap
    /\ tags = EmptyMap
    /\ categories = EmptyMap
    /\ output_path = "public"
    /\ pc = "idle"
    /\ op = "new"
    /\ steps = <<>>
    /\ written = {}
    /\ listed = <<>>
    /\ result = "none"
    /\ calls = 0
    /\ edits = 0

\* The content trees a run starts from: no content; content/_index.md,
\* content/post.md, content/sub/_index.md and content/sub/child.md; the top
\* section with the undated content/2017.md; content/post.md with the
\* malformed content/zbad.md.
InitTrees == {{}, {2, 3, 4, 5}, {1, 2}, {3, 7}}

Init ==
    /\ fs \in {Restrict(ContentFiles, S) : S \in InitTrees}
    /\ config \in {c \in Configs : c.base_url = SiteUrl}
    /\ disk = [r \in OutRoots |-> EmptyMap]
    /\ faulty = FALSE
    /\ NewSite

Next ==
    \/ Parse
    \/ Build
    \/ RebuildAfterContentChange
    \/ RebuildAfterTemplateChange
    \/ SetOutputPath
    \/ Clean
    \/ RenderPages
    \/ RenderCategories
    \/ RenderTags
    \/ RenderIndex
    \/ RenderSitemap
    \/ RenderRssFeed
    \/ RenderSections
    \/ CopyStaticDirectory
    \/ AddFile
    \/ RemoveFile

Spec == Init /\ [][Next]_vars

(***************************************************************************)
(* The feed of a large site: the Site has parsed a flat tree of up to      *)
(* MaxFeedPages pages, of which up to MaxUndated have no date, and is      *)
(* built once.                                                             *)
(***************************************************************************)
InitFeed ==
    /\ \E n \in 0..MaxFeedPages, undated \in 0..MaxUndated :
          /\ fs = FeedTree(n, undated)
          /\ pages = LoadContent(FeedTree(n, undated), EmptyMap).pages
    /\ sections = EmptyMap
    /\ tags = EmptyMap
    /\ categories = EmptyMap
    /\ config \in {c \in Configs : c.generate_tags_pages /\ c.generate_categories_pages}
    /\ disk = [r \in OutRoots |-> EmptyMap]
    /\ faulty = FALSE
    /\ output_path = "public"
    /\ pc = "idle"
    /\ op = "parse"
    /\ steps = <<"parse">>
    /\ written = {}
    /\ listed = <<>>
    /\ result = "ok"
    /\ calls = 1
    /\ edits = 0

NextFeed ==
    \/ Build
    \/ Clean
    \/ RenderPages
    \/ RenderCategories
    \/ RenderTags
    \/ RenderIndex
    \/ RenderSitemap
    \/ RenderRssFeed
    \/ RenderSections
    \/ CopyStaticDirectory

SpecFeed == InitFeed /\ [][NextFeed]_vars

(***************************************************************************)
(* Runs in which a step can fail: a template that does not render, a       *)
(* directory or a file that cannot be created, copied or removed.          *)
(***************************************************************************)
FaultyTrees == {{2, 3, 4, 5}, {3, 7}}

InitFaulty ==
    /\ fs \in {Restrict(ContentFiles, S) : S \in FaultyTrees}
    /\ config = [generate_rss |-> TRUE, generate_tags_pages |-> TRUE,
                 generate_categories_pages |-> TRUE, base_url |-> SiteUrl]
    /\ disk = [r \in OutRoots |-> EmptyMap]
    /\ faulty = TRUE
    /\ NewSite

SpecFaulty == InitFaulty /\ [][Next]_vars

(***************************************************************************)
(* The loader alone: a new Site over any content tree made of the content  *)
(* files, parsed and re-parsed while the author edits the tree.            *)
(***************************************************************************)
InitLoad ==
    /\ fs \in {Restrict(ContentFiles, S) : S \in SUBSET (DOMAIN ContentFiles)}
    /\ config = [generate_rss |-> TRUE, generate_tags_pages |-> TRUE,
                 generate_categories_pages |-> TRUE, base_url |-> SiteUrl]
    /\ disk = [r \in OutRoots |-> EmptyMap]
    /\ faulty = FALSE
    /\ NewSite

NextLoad ==
    \/ Parse
    \/ AddFile
    \/ RemoveFile

SpecLoad == InitLoad /\ [][NextLoad]_vars

(***************************************************************************)
(* Properties.                                                             *)
(***************************************************************************)
IsPrefix(s, t) == Len(s) <= Len(t) /\ SubSeq(t, 1, Len(s)) = s

\* The step taken is a call of parse(), alone or as the first step of
\* rebuild_after_content_change().
ParseCalled == calls' = calls + 1 /\ steps' = <<"parse">>

ParseSucceeded == ParseCalled /\ result' # "err"

ParseFailed == ParseCalled /\ result' = "err"

\* The pages and the section indices of a content tree.
PageFiles(tree) == {f \in DOMAIN tree : tree[f].name # "_index.md"}

SectionDirs(tree) == {tree[f].dir : f \in {g \in DOMAIN tree : tree[g].name = "_index.md"}}

\* The paths an index lists, under any key.
Indexed(idx) == UNION {Range(idx[k]) : k \in DOMAIN idx}

\* The number of times x occurs in the sequence s.
Occurrences(s, x) == Cardinality({i \in DOMAIN s : s[i] = x})

\* C1: parse() is idempotent: a parse() that directly follows a successful
\* parse() of the same content tree (no edit was made) leaves the pages,
\* the sections, the tag index and the category index as they were.
C1_ParseIdempotent ==
    [][(/\ pc = "idle" /\ op = "parse" /\ result = "ok" /\ edits = 0
        /\ ParseCalled /\ op' = "parse")
       => /\ pages' = pages
          /\ sections' = sections
          /\ tags' = tags
          /\ categories' = categories]_vars

\* C2: a parse() that succeeds (alone or in rebuild_after_content_change())
\* replaces the previous state: afterwards the pages collection holds
\* exactly the pages of the content tree, and the tag and category indices
\* list only pages of the content tree.
C2_ParseReplacesState ==
    [][ParseSucceeded
       => /\ DOMAIN pages' = PageFiles(fs)
          /\ Indexed(tags') \subseteq PageFiles(fs)
          /\ Indexed(categories') \subseteq PageFiles(fs)]_vars

\* C8: after a parse() that succeeds, every page of the content tree is in
\* the pages collection; a page whose directory has a section index is
\* once in the page list of that section and in no other section's list;
\* a page whose directory has none is in no section's list.
C8_PagesInTheirSection ==
    [][ParseSucceeded
       => \A f \in PageFiles(fs) :
             /\ f \in DOMAIN pages'
             /\ \A d \in DOMAIN sections' :
                   Occurrences(PathsOf(sections'[d].pages), f)
                       = IF d = fs[f].dir THEN 1 ELSE 0
             /\ fs[f].dir \in SectionDirs(fs) => fs[f].dir \in DOMAIN sections']_vars

\* C10: a parse() that fails leaves the pages, the sections, the tag index
\* and the category index as they were before the call.
C10_FailedParseLeavesSite ==
    [][ParseFailed
       => /\ pages' = pages
          /\ sections' = sections
          /\ tags' = tags
          /\ categories' = categories]_vars

\* The calls build() makes, in order, under the configuration cfg.
ExpectedBuildSteps(cfg) ==
    <<"clean", "render_pages">>
    \o (IF cfg.generate_categories_pages THEN <<"render_categories">> ELSE <<>>)
    \o (IF cfg.generate_tags_pages THEN <<"render_tags">> ELSE <<>>)
    \o <<"render_index", "render_sitemap">>
    \o (IF cfg.generate_rss THEN <<"render_rss_feed">> ELSE <<>>)
    \o <<"render_sections", "copy_static_directory">>

Building == op \in {"build", "rebuild_after_content_change"} /\ result # "err"

\* The steps of build() run so far by the call.
BuildSteps == IF op = "rebuild_after_content_change" THEN Tail(steps) ELSE steps

\* C3: build() runs clean, render pages, render listings, render site
\* index, render sitemap, render feed (if generate_rss), render sections,
\* copy static, one after the other in this order: the steps run so far
\* are always an initial part of that list, nothing is written before
\* clean has run, and a build that has returned has run them all.
C3_BuildOrder ==
    Building
    => /\ IsPrefix(BuildSteps, ExpectedBuildSteps(config))
       /\ written # {} => (BuildSteps # <<>> /\ Head(BuildSteps) = "clean")
       /\ (pc = "idle" /\ result = "ok") => BuildSteps = ExpectedBuildSteps(config)

C3_Witness ==
    /\ op = "build"
    /\ pc = "idle"
    /\ result = "ok"
    /\ Len(steps) = 9
    /\ <<output_path, <<"sitemap.xml">>>> \in written

TemplateRebuild == op = "rebuild_after_template_change"

KindsWritten == {disk[e[1]][e[2]].kind : e \in written}

\* C4 as stated: rebuild_after_template_change() writes no section page, no
\* tags/categories listing page (overview or detail), no sitemap and no
\* feed.
C4_TemplateRebuildOnlyPages ==
    TemplateRebuild
    => KindsWritten \cap {"section", "list", "single", "sitemap", "rss"} = {}

\* The calls rebuild_after_template_change() makes, in order.
ExpectedTemplateSteps(cfg) ==
    <<"full_reload", "render_pages">>
    \o (IF cfg.generate_categories_pages THEN <<"render_categories">> ELSE <<>>)
    \o (IF cfg.generate_tags_pages THEN <<"render_tags">> ELSE <<>>)
    \o <<"render_index">>

\* C4 as amended: rebuild_after_template_change() reloads the templates and
\* runs build_pages(): the pages, the listings whose toggle is on, the site
\* index, and nothing else.  It renders no section, no sitemap and no feed,
\* and every sitemap and feed file of the output trees stays as it was.
C4_TemplateRebuildScope ==
    [][op' = "rebuild_after_template_change"
       => /\ IsPrefix(steps', ExpectedTemplateSteps(config))
          /\ {disk'[e[1]][e[2]].kind : e \in written'}
                 \cap {"section", "sitemap", "rss"} = {}
          /\ \A r \in OutRoots : \A p \in DOMAIN disk[r] :
                disk[r][p].kind \in {"sitemap", "rss"}
                => (p \in DOMAIN disk'[r] /\ disk'[r][p] = disk[r][p])]_vars

C4_Witness ==
    /\ TemplateRebuild
    /\ pc = "idle"
    /\ result = "ok"
    /\ "list" \in KindsWritten
    /\ "single" \in KindsWritten
    /\ <<"sitemap.xml">> \in DOMAIN disk[output_path]
    /\ <<"rss.xml">> \in DOMAIN disk[output_path]

Dated(pgs) == {k \in DOMAIN pgs : pgs[k].date # {}}

\* The min(15, n) most recently dated of the dated pages, latest first.
MostRecent(pgs) ==
    LET keys == Ascending(Dated(pgs))
    IN  Take(SortPages([i \in 1..Len(keys) |-> pgs[keys[i]]]), FeedLimit)

FeedEntry == <<output_path, <<"rss.xml">>>>

FeedDoc == disk[output_path][<<"rss.xml">>]

\* C5: the feed a build has rendered lists exactly the min(15, n) most
\* recently dated of the n dated pages, in date-descending order.
C5_FeedMostRecent ==
    (Building /\ FeedEntry \in written)
    => FeedDoc.pages = PathsOf(MostRecent(pages))

\* C6: the last_build_date of the feed a build has rendered is the maximum
\* date over all the pages that have a date.
C6_LastBuildDate ==
    (Building /\ FeedEntry \in written)
    => FeedDoc.date = {Max(UNION {pages[k].date : k \in DOMAIN pages})}

\* C7: build() writes no feed file when generate_rss is off;
\* render_rss_feed() writes no feed file when no page has a date, and the
\* build goes on; a page without a date is never in the feed.
C7_FeedSkipped ==
    Building
    => /\ ~config.generate_rss
          => (FeedEntry \notin written /\ "render_rss_feed" \notin Range(steps))
       /\ Dated(pages) = {} => \A r \in OutRoots : <<r, <<"rss.xml">>>> \notin written
       /\ "render_rss_feed" \in Range(steps) => (pc # "idle" \/ result = "ok")
       /\ FeedEntry \in written => Range(FeedDoc.pages) \subseteq Dated(pages)

C7_Witness ==
    /\ op = "build"
    /\ pc = "idle"
    /\ result = "ok"
    /\ config.generate_rss
    /\ "render_rss_feed" \in Range(steps)
    /\ DOMAIN pages # {}
    /\ Dated(pages) = {}
    /\ <<"rss.xml">> \notin DOMAIN disk[output_path]

FirstParseDone ==
    /\ calls = 1
    /\ op \in {"parse", "rebuild_after_content_change"}
    /\ result # "err"

\* C9: after a parse() on a freshly constructed Site the tag index maps a
\* tag to a page iff the page declares the tag, the category index maps a
\* category to a page iff it is the page's category, and the indices list
\* nothing but pages of the Site.
C9_IndexMembership ==
    FirstParseDone
    => /\ \A p \in DOMAIN pages :
             /\ \A t \in (DOMAIN tags) \cup Range(pages[p].tags) :
                   (t \in DOMAIN tags /\ p \in Range(tags[t]))
                       <=> t \in Range(pages[p].tags)
             /\ \A c \in (DOMAIN categories) \cup pages[p].category :
                   (c \in DOMAIN categories /\ p \in Range(categories[c]))
                       <=> c \in pages[p].category
       /\ Indexed(tags) \subseteq DOMAIN pages
       /\ Indexed(categories) \subseteq DOMAIN pages

C9_Witness ==
    /\ FirstParseDone
    /\ op = "parse"
    /\ \E p \in DOMAIN pages : Len(pages[p].tags) = 2 /\ pages[p].category = {}
    /\ \E p \in DOMAIN pages : pages[p].category # {}
    /\ DOMAIN tags = {"a", "b"}

\* A list of pages is in the Page ordering: no page is Greater than a later
\* one.
InPageOrder(ps) ==
    \A i, j \in DOMAIN ps : i < j => PageCmp(ps[i], ps[j]) # 1

\* The Site holds the result of a parse() of the content tree as it is.
ParsedAsIs == pc = "idle" /\ op = "parse" /\ result = "ok" /\ edits = 0

\* C17: after parse(), the subsections of every section S are exactly the
\* sections whose directory is a direct child of the directory of S, each
\* once, and the pages of S are in the Page ordering; for the tree
\* content/_index.md, content/post.md, content/sub/_index.md,
\* content/sub/child.md the top section has one page and one subsection.
C17_SubsectionsAndOrder ==
    /\ \A d \in DOMAIN sections :
          LET subs == sections[d].subsections
          IN  /\ {subs[i].parent_path : i \in DOMAIN subs}
                    = {e \in DOMAIN sections : Parent(e) = d}
              /\ \A i, j \in DOMAIN subs :
                    subs[i].parent_path = subs[j].parent_path => i = j
              /\ InPageOrder(sections[d].pages)
    /\ (ParsedAsIs /\ DOMAIN fs = {2, 3, 4, 5})
          => /\ Len(sections["content"].pages) = 1
             /\ Len(sections["content"].subsections) = 1

\* content/sub holds child.md and the more recent late.md, the top section
\* holds post.md and the section content/sub.
C17_Witness ==
    /\ ParsedAsIs
    /\ DOMAIN fs = {2, 3, 4, 5, 6}
    /\ PathsOf(sections["content/sub"].pages) = <<6, 5>>
    /\ PathsOf(sections["content"].pages) = <<3>>
    /\ Len(sections["content"].subsections) = 1

\* C20: after parse(), every entry of the subsections of a section equals
\* the section the Site holds under the entry's directory, with its sorted
\* pages and its own subsections.
C20_SubsectionsAreTheSections ==
    \A d \in DOMAIN sections :
        \A i \in DOMAIN sections[d].subsections :
            LET t == sections[d].subsections[i]
            IN  /\ t.parent_path \in DOMAIN sections
                /\ t = sections[t.parent_path]

\* The call runs build_pages(): a build or a template rebuild, none of
\* whose steps has failed.
RunsBuildPages ==
    /\ op \in {"build", "rebuild_after_content_change", "rebuild_after_template_change"}
    /\ result # "err"

ListingKinds == {"categories", "tags"}

ListingToggle(kind) ==
    IF kind = "tags" THEN config.generate_tags_pages
    ELSE config.generate_categories_pages

ListingIndex(kind) == IF kind = "tags" THEN tags ELSE categories

ListingStep(kind) == IF kind = "tags" THEN "render_tags" ELSE "render_categories"

\* The entries the call has written below the directory of the listing.
ListingEntries(kind) == {e \in written : e[2] # <<>> /\ e[2][1] = kind}

\* build_pages() has gone past the point where it renders the listing.
PastListing(kind) ==
    pc \in (IF kind = "tags" THEN {} ELSE {"tags"})
            \cup {"index", "sitemap", "rss", "sections", "static", "idle"}

\* C13: build_pages() calls render_categories_and_tags for a kind exactly
\* when the toggle of that kind is on, whatever the other toggle is; the
\* call writes the overview when the index is not empty, and creates no
\* directory and no file when the index is empty; so a listing page is
\* written only for a kind whose toggle is on and whose index is not empty.
C13_ListingsPerToggle ==
    RunsBuildPages
    => \A kind \in ListingKinds :
          /\ ListingStep(kind) \in Range(steps) => ListingToggle(kind)
          /\ (PastListing(kind) /\ ListingToggle(kind))
                => ListingStep(kind) \in Range(steps)
          /\ ListingStep(kind) \in Range(steps)
                => IF DOMAIN ListingIndex(kind) = {}
                   THEN ListingEntries(kind) = {}
                   ELSE <<output_path, <<kind, "index.html">>>> \in written
          /\ ListingEntries(kind) # {}
                => ListingToggle(kind) /\ DOMAIN ListingIndex(kind) # {}

\* A build of a Site with pages and no tag, tags on and categories off, has
\* returned: render_tags ran and wrote nothing, render_categories did not
\* run.
C13_Witness ==
    /\ RunsBuildPages
    /\ pc = "idle"
    /\ result = "ok"
    /\ config.generate_tags_pages
    /\ ~config.generate_categories_pages
    /\ DOMAIN pages # {}
    /\ tags = EmptyMap
    /\ "render_tags" \in Range(steps)
    /\ ListingEntries("tags") = {}

\* The files (not the directories) of a tree.
FilesOf(t) == {p \in DOMAIN t : t[p].kind # "dir"}

\* C14: clean() leaves no file under the configured output directory: the
\* clean that follows a build (the first step of the next build) empties
\* the output root, whether it is the default public or was set with
\* set_output_path.
C14_CleanEmptiesOutput ==
    [][(pc = "clean" /\ steps' = Append(steps, "clean") /\ result' # "err")
       => FilesOf(disk'[output_path]) = {}]_vars

StaticFiles == {w \in Range(StaticEntries) : w.doc.kind # "dir"}

\* C15: copy_static_directory() copies the static directory into the
\* configured output directory: afterwards every static file is there with
\* the content of its source, and every other entry of the output
\* directory is as it was.
C15_StaticIntoOutput ==
    [][(pc = "static" /\ steps' = Append(steps, "copy_static_directory")
        /\ result' # "err")
       => /\ \A w \in StaticFiles :
                /\ w.path \in DOMAIN disk'[output_path]
                /\ disk'[output_path][w.path] = w.doc
          /\ \A p \in (DOMAIN disk[output_path]) \ {w.path : w \in StaticFiles} :
                /\ p \in DOMAIN disk'[output_path]
                /\ disk'[output_path][p] = disk[output_path][p]]_vars

\* The call is a build() on the Site as constructed: no parse() has run.
BuildOfNewSite == calls = 1 /\ op = "build" /\ result # "err"

\* C18 as stated: build() requires a loaded Site: it runs no step, clean or
\* render, on a Site on which no parse() has run.
C18_BuildRequiresLoaded == BuildOfNewSite => steps = <<>>

\* C18: build() does not check that the Site is loaded.  On a Site on which
\* no parse() has run it runs all its steps over the empty collections: it
\* writes the site index with no page and the sitemap, copies the static
\* files, writes no page, section, listing or feed document, and returns
\* Ok.
C18_BuildOfNewSite ==
    BuildOfNewSite
    => /\ IsPrefix(steps, ExpectedBuildSteps(config))
       /\ pc = "idle" => (result = "ok" /\ steps = ExpectedBuildSteps(config))
       /\ KindsWritten \subseteq {"dir", "index", "sitemap", "static"}
       /\ \A e \in written :
             disk[e[1]][e[2]].pages = <<>> /\ disk[e[1]][e[2]].items = <<>>
       /\ "render_index" \in Range(steps)
             => <<output_path, <<"index.html">>>> \in written
       /\ "render_sitemap" \in Range(steps)
             => <<output_path, <<"sitemap.xml">>>> \in written

C18_Witness ==
    /\ BuildOfNewSite
    /\ pc = "idle"
    /\ result = "ok"
    /\ <<output_path, <<"index.html">>>> \in written
    /\ disk[output_path][<<"index.html">>].pages = <<>>

\* C19: for every tag and category, the member count the overview shows
\* equals the number of pages its detail page lists.
C19_CountIsDetailLength ==
    RunsBuildPages
    => \A kind \in ListingKinds :
          <<output_path, <<kind, "index.html">>>> \in written
          => LET items == disk[output_path][<<kind, "index.html">>].items
             IN  \A i \in DOMAIN items :
                    LET detail == <<kind, items[i].slug, "index.html">>
                    IN  /\ detail \in DOMAIN disk[output_path]
                        /\ Len(disk[output_path][detail].pages) = items[i].count

\* C16: the feed url of a rendered feed is base_url followed by exactly one
\* "/" and feed.xml: it ends with "/" and "feed.xml", and what precedes
\* "feed.xml" is base_url itself when base_url ends with "/", and what
\* precedes the "/" is base_url otherwise.
C16_FeedUrlJoin ==
    (RunsBuildPages /\ FeedEntry \in written)
    => \E u \in FeedDoc.urls :
          /\ FeedDoc.urls = {u}
          /\ Len(u) >= 2
          /\ u[Len(u)] = "feed.xml"
          /\ u[Len(u) - 1] = "/"
          /\ IF EndsWithSlash(config.base_url)
             THEN SubSeq(u, 1, Len(u) - 1) = config.base_url
             ELSE SubSeq(u, 1, Len(u) - 2) = config.base_url

\* A feed was rendered for a base_url with a trailing slash.
C16_Witness ==
    /\ RunsBuildPages
    /\ FeedEntry \in written
    /\ EndsWithSlash(config.base_url)
    /\ FeedDoc.urls = {SiteUrl \o <<"/", "feed.xml">>}

\* The step just run is render_categories_and_tags for `kind`, over an
\* index that is not empty.
JustListed(kind) ==
    /\ RunsBuildPages
    /\ steps # <<>>
    /\ steps[Len(steps)] = ListingStep(kind)
    /\ listed # <<>>

\* The position of the key x in the iteration order.
Position(keys, x) == CHOOSE i \in DOMAIN keys : keys[i] = x

\* C12: the items of the overview are the keys of the index, each once,
\* each with the length of its list as count, in descending order of
\* count, and items of equal count are in the order in which the keys were
\* iterated.
C12_OverviewOrder ==
    \A kind \in ListingKinds :
        JustListed(kind)
        => LET items == disk[output_path][<<kind, "index.html">>].items
               idx == ListingIndex(kind)
           IN  /\ Len(items) = Len(listed)
               /\ {items[i].name : i \in DOMAIN items} = Range(listed)
               /\ Range(listed) = DOMAIN idx
               /\ \A i \in DOMAIN items : items[i].count = Len(idx[items[i].name])
               /\ \A i, j \in DOMAIN items :
                     i < j => /\ items[i].count >= items[j].count
                              /\ items[i].count = items[j].count
                                    => Position(listed, items[i].name)
                                         < Position(listed, items[j].name)

\* Tags a and b have as many pages, b was iterated first, and the overview
\* lists b first.
C12_Witness ==
    /\ JustListed("tags")
    /\ listed = <<"b", "a">>
    /\ Len(tags["a"]) = Len(tags["b"])
    /\ disk[output_path][<<"tags", "index.html">>].items[1].name = "b"

\* The kinds of document a step writes.
KindsOfStep(name) ==
    IF name = "render_pages" THEN {"dir", "page", "asset"}
    ELSE IF name \in {"render_categories", "render_tags"} THEN {"dir", "list", "single"}
    ELSE IF name = "render_index" THEN {"index"}
    ELSE IF name = "render_sitemap" THEN {"sitemap"}
    ELSE IF name = "render_rss_feed" THEN {"rss"}
    ELSE IF name = "render_sections" THEN {"dir", "section"}
    ELSE IF name = "copy_static_directory" THEN {"dir", "static"}
    ELSE {}

\* C11: the first failure of a step of a controller call is returned and no
\* later step runs: the call that gets an error is over at once; a
\* rebuild_after_content_change() whose parse() fails has run nothing but
\* the parse and has left the output trees as they were; once a call has
\* failed, nothing more is run or written by it; and what a call has
\* written are documents of the steps it has run.
C11_FirstFailureReturns ==
    [][/\ result' = "err" => pc' = "idle"
       /\ (ParseFailed /\ op' = "rebuild_after_content_change")
             => (disk' = disk /\ steps' = <<"parse">> /\ written' = {})
       /\ (result = "err" /\ calls' = calls)
             => (disk' = disk /\ steps' = steps /\ written' = written)
       /\ KindsWritten' \subseteq UNION {KindsOfStep(steps'[i]) : i \in DOMAIN steps'}]_vars

\* A build() of a Site with pages has failed in render_sitemap: the site
\* index is written; no sitemap, feed, section page or static file is.
C11_Witness ==
    /\ faulty
    /\ op = "build"
    /\ pc = "idle"
    /\ result = "err"
    /\ DOMAIN pages # {}
    /\ steps[Len(steps)] = "render_sitemap"
    /\ <<output_path, <<"index.html">>>> \in written
    /\ KindsWritten \cap {"sitemap", "rss", "section", "static"} = {}
====
